---- MODULE Spec2Model ----
(***************************************************************************)
(* Model of optionalgo.py: the scripted orderbook walk of simulate().      *)
(*                                                                         *)
(* Prices are fixed-point numbers in units of 1/Scale of a currency unit.  *)
(* The inputs are whole currency units (the widgets' step is 1.0), so      *)
(* every division of the program (by 100 for the threshold, by 2 for the   *)
(* mid) is exact in this representation; binary floating-point rounding    *)
(* is not modelled.                                                        *)
(***************************************************************************)
EXTENDS Integers, Sequences, FiniteSets, TLC

VARIABLES fair_price, algo_bid, algo_ask, human_buy, threshold_pct,
          orderbook, events, ts, pc, df, prev_params, prev_df

params == <<fair_price, algo_bid, algo_ask, human_buy, threshold_pct>>

vars == <<fair_price, algo_bid, algo_ask, human_buy, threshold_pct,
          orderbook, events, ts, pc, df, prev_params, prev_df>>

----------------------------------------------------------------------------
(* Bounds and program constants *)

MaxPrice == 1

Scale == 200

DefaultFair == 40
DefaultBid == 20
DefaultAsk == 100
DefaultHuman == 21
DefaultPct == 20
MinPct == 0
MaxPct == 100

AlgoQty == 100
HumanQty == 10
BidImprovement == 2

HUMAN == "HUMAN"
ALGO == "ALGO"

None == <<>>
Some(v) == <<v>>

\* No run has built a book yet
NoBook == [bids |-> <<>>, asks |-> <<>>]

Units(n) == n * Scale

FairPrices == {Units(n) : n \in (1..MaxPrice) \cup {DefaultFair}}
AlgoBids == {Units(n) : n \in (1..MaxPrice) \cup {DefaultBid}}
AlgoAsks == {Units(n) : n \in (1..MaxPrice) \cup {DefaultAsk}}
HumanBuys == {Units(n) : n \in (1..MaxPrice) \cup {DefaultHuman}}
ThresholdPcts == {MinPct, DefaultPct, MaxPct}

----------------------------------------------------------------------------
(* Pure helpers *)

\* max(seq, key=lambda x: x[0]): the first entry of greatest price
RECURSIVE MaxByPrice(_)
MaxByPrice(s) ==
  IF Len(s) = 1 THEN s[1]
  ELSE LET m == MaxByPrice(SubSeq(s, 1, Len(s) - 1))
       IN IF s[Len(s)][1] > m[1] THEN s[Len(s)] ELSE m

\* min(seq, key=lambda x: x[0]): the first entry of least price
RECURSIVE MinByPrice(_)
MinByPrice(s) ==
  IF Len(s) = 1 THEN s[1]
  ELSE LET m == MinByPrice(SubSeq(s, 1, Len(s) - 1))
       IN IF s[Len(s)][1] < m[1] THEN s[Len(s)] ELSE m

\* Variant: only the first bid entry is looked at
BestBid_First(ob) == ob.bids[1][1]

BestBid(ob) == MaxByPrice(ob.bids)[1]

BestAsk(ob) == MinByPrice(ob.asks)[1]

Mid(bb, ba) == (bb + ba) \div 2

\* Variant: a crossed book is rejected as well
CanRecord_Uncrossed(ob) ==
  /\ ob.bids # <<>>
  /\ ob.asks # <<>>
  /\ BestBid(ob) <= BestAsk(ob)

\* max()/min() of an empty sequence raises ValueError
CanRecord(ob) == ob.bids # <<>> /\ ob.asks # <<>>

\* Variant: the snapshot overwrites the last record instead of being appended
record_Overwrite(ob, ev, t, actor, action, price, note) ==
  LET bb == BestBid(ob)
      ba == BestAsk(ob)
      rec == [t |-> t, actor |-> actor, action |-> action, price |-> price,
              best_bid |-> bb, best_ask |-> ba, mid |-> Mid(bb, ba),
              note |-> note]
  IN IF ev = <<>> THEN <<rec>> ELSE [ev EXCEPT ![Len(ev)] = rec]

\* record(): the event log after the snapshot of book ob is appended
record(ob, ev, t, actor, action, price, note) ==
  LET bb == BestBid(ob)
      ba == BestAsk(ob)
  IN Append(ev, [t |-> t, actor |-> actor, action |-> action, price |-> price,
                 best_bid |-> bb, best_ask |-> ba, mid |-> Mid(bb, ba),
                 note |-> note])

\* Variant: the threshold is taken below the fair price
SellTriggerPrice_Below(fair, pct) == (fair * (100 - pct)) \div 100

SellTriggerPrice(fair, pct) == (fair * (100 + pct)) \div 100

\* Variant: the book of the previous run is kept when there is one
SeedOrderbook_Kept ==
  IF orderbook = NoBook
  THEN [bids |-> << <<algo_bid, AlgoQty, ALGO>> >>,
        asks |-> << <<algo_ask, AlgoQty, ALGO>> >>]
  ELSE orderbook

\* Variant: the book is seeded with the bid only
SeedOrderbook_NoAsk ==
  [bids |-> << <<algo_bid, AlgoQty, ALGO>> >>, asks |-> <<>>]

\* orderbook = {'bids': [(algo_bid, 100, ALGO)], 'asks': [(algo_ask, 100, ALGO)]}
SeedOrderbook ==
  [bids |-> << <<algo_bid, AlgoQty, ALGO>> >>,
   asks |-> << <<algo_ask, AlgoQty, ALGO>> >>]

NewEvents == <<>>

\* Variant: the human bid takes the place of the algo bid
PostHumanBid_Replace(ob) == [ob EXCEPT !.bids = << <<human_buy, HumanQty, HUMAN>> >>]

PostHumanBid(ob) == [ob EXCEPT !.bids = Append(@, <<human_buy, HumanQty, HUMAN>>)]

\* Variant: the last bid entry is overwritten instead of the first
ImproveAlgoBid_Last(ob) ==
  [ob EXCEPT !.bids[Len(ob.bids)] = <<algo_bid + Units(BidImprovement), AlgoQty, ALGO>>]

ImproveAlgoBid(ob) ==
  [ob EXCEPT !.bids[1] = <<algo_bid + Units(BidImprovement), AlgoQty, ALGO>>]

\* Variant: the trigger quote is added to the asks instead of replacing the first
QuoteSellTrigger_Append(ob) ==
  [ob EXCEPT !.asks = Append(@, <<SellTriggerPrice(fair_price, threshold_pct), AlgoQty, ALGO>>)]

QuoteSellTrigger(ob) ==
  [ob EXCEPT !.asks[1] = <<SellTriggerPrice(fair_price, threshold_pct), AlgoQty, ALGO>>]

\* Variant: only the bid is reset
ResetAlgoQuotes_BidOnly(ob) == [ob EXCEPT !.bids[1] = <<algo_bid, AlgoQty, ALGO>>]

ResetAlgoQuotes(ob) ==
  [ob EXCEPT !.asks[1] = <<algo_ask, AlgoQty, ALGO>>,
             !.bids[1] = <<algo_bid, AlgoQty, ALGO>>]

----------------------------------------------------------------------------
(* State machine *)

Init ==
  /\ fair_price \in FairPrices
  /\ algo_bid \in AlgoBids
  /\ algo_ask \in AlgoAsks
  /\ human_buy \in HumanBuys
  /\ threshold_pct \in ThresholdPcts
  /\ orderbook = NoBook
  /\ events = <<>>
  /\ ts = 0
  /\ pc = "idle"
  /\ df = None
  /\ prev_params = None
  /\ prev_df = None

\* A step of simulate(): the book becomes ob, the snapshot is recorded
Step(from, to, ob, t, actor, action, price, note) ==
  /\ pc = from
  /\ orderbook' = ob
  /\ ts' = t
  /\ IF CanRecord(ob)
     THEN /\ events' = record(ob, events, t, actor, action, price, note)
          /\ pc' = to
     ELSE /\ events' = events
          /\ pc' = "error"
  /\ UNCHANGED <<fair_price, algo_bid, algo_ask, human_buy, threshold_pct,
                 df, prev_params, prev_df>>

\* The table of the run just completed becomes the previous run's table
Archive ==
  IF pc = "done"
  THEN /\ prev_params' = Some(params)
       /\ prev_df' = df
  ELSE UNCHANGED <<prev_params, prev_df>>

\* A widget is given another value: the script is run again with run_button
\* False, simulate() is not called and no table is shown
ChangeWidget ==
  /\ pc \in {"idle", "done"}
  /\ \/ /\ fair_price' \in FairPrices \ {fair_price}
        /\ UNCHANGED <<algo_bid, algo_ask, human_buy, threshold_pct>>
     \/ /\ algo_bid' \in AlgoBids \ {algo_bid}
        /\ UNCHANGED <<fair_price, algo_ask, human_buy, threshold_pct>>
     \/ /\ algo_ask' \in AlgoAsks \ {algo_ask}
        /\ UNCHANGED <<fair_price, algo_bid, human_buy, threshold_pct>>
     \/ /\ human_buy' \in HumanBuys \ {human_buy}
        /\ UNCHANGED <<fair_price, algo_bid, algo_ask, threshold_pct>>
     \/ /\ threshold_pct' \in ThresholdPcts \ {threshold_pct}
        /\ UNCHANGED <<fair_price, algo_bid, algo_ask, human_buy>>
  /\ Archive
  /\ df' = None
  /\ pc' = "idle"
  /\ UNCHANGED <<orderbook, events, ts>>

\* run_button pressed: the script is run again, simulate() is entered and
\* builds its locals
SimulateBegin ==
  /\ pc \in {"idle", "done"}
  /\ Archive
  /\ df' = None
  /\ orderbook' = SeedOrderbook
  /\ events' = NewEvents
  /\ pc' = "seeded"
  /\ UNCHANGED <<fair_price, algo_bid, algo_ask, human_buy, threshold_pct, ts>>

InitialQuotes ==
  Step("seeded", "t0", orderbook, 0, "INIT", "Initial quotes", None, None)

PostBid ==
  Step("t0", "t1", PostHumanBid(orderbook), ts + 1, HUMAN, "Post bid",
       Some(human_buy), Some("Human places limit buy"))

ImprovesBid ==
  Step("t1", "t2", ImproveAlgoBid(orderbook), ts + 1, ALGO, "Improves bid",
       Some(algo_bid + Units(BidImprovement)), Some("Algo moves bid up slightly"))

SellTrigger ==
  Step("t2", "t3", QuoteSellTrigger(orderbook), ts + 1, ALGO, "Sell trigger",
       Some(SellTriggerPrice(fair_price, threshold_pct)),
       Some("Algo prepares to sell at threshold"))

ResetQuotes ==
  Step("t3", "t4", ResetAlgoQuotes(orderbook), ts + 1, ALGO, "Reset quotes",
       None, Some("Algo resets to original quotes"))

\* return pd.DataFrame(events); the table is displayed
Return ==
  /\ pc = "t4"
  /\ df' = Some(events)
  /\ pc' = "done"
  /\ UNCHANGED <<fair_price, algo_bid, algo_ask, human_buy, threshold_pct,
                 orderbook, events, ts, prev_params, prev_df>>

Next ==
  \/ ChangeWidget
  \/ SimulateBegin
  \/ InitialQuotes
  \/ PostBid
  \/ ImprovesBid
  \/ SellTrigger
  \/ ResetQuotes
  \/ Return

Spec == Init /\ [][Next]_vars

----------------------------------------------------------------------------
(* Properties *)

\* The event log is that of the run in progress or just completed
Live == pc \in {"seeded", "t0", "t1", "t2", "t3", "t4", "done"}

\* The last record is the snapshot of the current book
Snapped == pc \in {"t0", "t1", "t2", "t3", "t4", "done"}

DefaultParams ==
  <<Units(DefaultFair), Units(DefaultBid), Units(DefaultAsk), Units(DefaultHuman),
    DefaultPct>>

Quotes(ev) == [i \in 1..Len(ev) |-> <<ev[i].best_bid, ev[i].best_ask>>]

\* C1 (as stated): the record at t=4 has best_bid = algo_bid and
\* best_ask = algo_ask, whatever was done at t=1..3.
C1_Original ==
  (Live /\ Len(events) >= 5) =>
    /\ events[5].best_bid = algo_bid
    /\ events[5].best_ask = algo_ask

\* C1 (amended): the record at t=4 has best_ask = algo_ask and best_bid equal
\* to the greater of algo_bid and human_buy, the human bid still being in
\* the book.
C1_ResetQuotes ==
  (Live /\ Len(events) >= 5) =>
    /\ events[5].t = 4
    /\ events[5].action = "Reset quotes"
    /\ events[5].best_bid = (IF human_buy > algo_bid THEN human_buy ELSE algo_bid)
    /\ events[5].best_ask = algo_ask

C1_Witness ==
  /\ pc = "done"
  /\ Len(events) = 5
  /\ human_buy > algo_bid
  /\ events[5].best_bid = human_buy
  /\ events[4].best_ask # algo_ask
  /\ events[5].best_ask = algo_ask

\* C2: a run returns exactly five records with timestamps 0,1,2,3,4 in that
\* order; during a run the log only grows, by one record per step, and no
\* record already in it is removed or rewritten.
C2_FiveRecords ==
  /\ [](pc = "done" =>
          /\ df = Some(events)
          /\ Len(events) = 5
          /\ \A i \in 1..5 : events[i].t = i - 1)
  /\ [](Live => \A i \in 1..Len(events) : events[i].t = i - 1)
  /\ [][(pc \in {"seeded", "t0", "t1", "t2", "t3"}) =>
          (Len(events') = Len(events) + 1 /\ SubSeq(events', 1, Len(events)) = events)]_vars
  /\ [][(pc = "t4") => (events' = events)]_vars

C2_Witness ==
  /\ pc = "done"
  /\ df # None
  /\ Len(df[1]) = 5
  /\ df[1][5].t = 4

\* C3 (as stated): with fair_price=40, algo_bid=20, algo_ask=100, human_buy=21,
\* threshold_pct=20 the (best_bid, best_ask) pairs are (20,100), (21,100),
\* (22,100), (22,48), (20,100).
C3_Original ==
  (pc = "done" /\ params = DefaultParams) =>
    Quotes(events) = << <<Units(20), Units(100)>>, <<Units(21), Units(100)>>,
                        <<Units(22), Units(100)>>, <<Units(22), Units(48)>>,
                        <<Units(20), Units(100)>> >>

\* C3 (amended): with these parameters the pairs are (20,100), (21,100),
\* (22,100), (22,48), (21,100).
C3_DefaultScenario ==
  (pc = "done" /\ params = DefaultParams) =>
    Quotes(events) = << <<Units(20), Units(100)>>, <<Units(21), Units(100)>>,
                        <<Units(22), Units(100)>>, <<Units(22), Units(48)>>,
                        <<Units(21), Units(100)>> >>

C3_Witness ==
  /\ pc = "done"
  /\ params = DefaultParams
  /\ Len(events) = 5

\* C4: the record at t=1 has best_bid = max(algo_bid, human_buy); when it is
\* taken the bid sequence is the algo bid followed by the human bid.
C4_PostBid ==
  /\ (Live /\ Len(events) >= 2) =>
       /\ events[2].action = "Post bid"
       /\ events[2].best_bid >= algo_bid
       /\ events[2].best_bid >= human_buy
       /\ events[2].best_bid \in {algo_bid, human_buy}
  /\ pc = "t1" =>
       orderbook.bids = << <<algo_bid, AlgoQty, ALGO>>, <<human_buy, HumanQty, HUMAN>> >>

C4_Witness ==
  /\ pc = "t1"
  /\ algo_bid > human_buy
  /\ events[2].best_bid = algo_bid

\* C5: the record at t=3 has best_ask = fair_price * (1 + threshold_pct/100)
\* and the same value in its price field; the ask sequence has one entry when
\* the snapshot is taken.
C5_SellTrigger ==
  /\ (Live /\ Len(events) >= 4) =>
       /\ events[4].action = "Sell trigger"
       /\ events[4].best_ask * 100 = fair_price * (100 + threshold_pct)
       /\ events[4].price = Some(events[4].best_ask)
  /\ pc = "t3" => Len(orderbook.asks) = 1

C5_Witness ==
  /\ pc = "t3"
  /\ threshold_pct = DefaultPct
  /\ events[4].best_ask > algo_ask
  /\ events[4].price = Some(events[4].best_ask)

\* C6: in every record mid is (best_bid + best_ask) / 2 of that record, and
\* the best_bid and best_ask of a snapshot are the greatest bid price and the
\* least ask price of the whole book at that moment.
C6_Mid ==
  /\ Live => \A i \in 1..Len(events) :
               2 * events[i].mid = events[i].best_bid + events[i].best_ask
  /\ Snapped =>
       LET last == events[Len(events)]
           bidPrices == {orderbook.bids[i][1] : i \in 1..Len(orderbook.bids)}
           askPrices == {orderbook.asks[i][1] : i \in 1..Len(orderbook.asks)}
       IN /\ last.best_bid \in bidPrices
          /\ \A p \in bidPrices : p <= last.best_bid
          /\ last.best_ask \in askPrices
          /\ \A p \in askPrices : p >= last.best_ask

C6_Witness ==
  /\ pc = "t2"
  /\ Len(orderbook.bids) = 2
  /\ orderbook.bids[2][1] > orderbook.bids[1][1]
  /\ events[3].best_bid = orderbook.bids[2][1]
  /\ 2 * events[3].mid = events[3].best_bid + events[3].best_ask

\* C7: a run made with the same five parameter values as the run before it
\* returns the same sequence of records.
C7_Idempotent ==
  (pc = "done" /\ prev_params = Some(params)) => df = prev_df

C7_Witness ==
  /\ pc = "done"
  /\ prev_params = Some(params)
  /\ prev_df = df
  /\ Len(df[1]) = 5
  /\ human_buy > algo_bid

\* C8: throughout a run the book holds at least one bid and at least one ask,
\* and no snapshot fails for want of one.
C8_NonEmptyBook ==
  /\ pc # "error"
  /\ Live => (Len(orderbook.bids) >= 1 /\ Len(orderbook.asks) >= 1)

C8_Witness ==
  /\ pc = "t4"
  /\ Len(orderbook.bids) >= 1
  /\ Len(orderbook.asks) >= 1
  /\ Len(events) = 5

\* C9: best_ask >= best_bid is not maintained: whenever human_buy exceeds
\* algo_ask the record at t=1 has best_ask < best_bid, and the run still
\* completes with five records and no error.
C9_CrossedBook ==
  /\ pc # "error"
  /\ pc = "done" => Len(events) = 5
  /\ (Live /\ Len(events) >= 2 /\ human_buy > algo_ask) =>
       events[2].best_ask < events[2].best_bid

C9_Witness ==
  /\ pc = "done"
  /\ df # None
  /\ Len(df[1]) = 5
  /\ \E i \in 1..5 : df[1][i].best_ask < df[1][i].best_bid

\* C10: from t=1 on the human bid (human_buy, 10, HUMAN) is the second entry
\* of the bid sequence, which has exactly two entries, and the ask sequence
\* has exactly one.
C10_HumanBidStays ==
  pc \in {"t1", "t2", "t3", "t4", "done"} =>
    /\ Len(orderbook.bids) = 2
    /\ orderbook.bids[2] = <<human_buy, HumanQty, HUMAN>>
    /\ Len(orderbook.asks) = 1
    /\ orderbook.bids[1][3] = ALGO
    /\ orderbook.asks[1][3] = ALGO

C10_Witness ==
  /\ pc = "t4"
  /\ Len(orderbook.bids) = 2
  /\ orderbook.bids[2] = <<human_buy, HumanQty, HUMAN>>
  /\ orderbook.bids[1] = <<algo_bid, AlgoQty, ALGO>>

====
